---- MODULE Spec2Model ----
(***************************************************************************)
(* Differential-expression method contract of multi_condition_comparisions *)
(* (tl/de.py, methods/_edger.py, methods/_statsmodels.py, tl/wrapper.py).  *)
(*                                                                         *)
(* Specifications:                                                         *)
(*   Spec         the lifecycle of one method instance: construct, fit,    *)
(*                test_contrasts;                                          *)
(*   SpecSession  two instances and the R session the edgeR backends       *)
(*                share;                                                   *)
(*   SpecCond     the contrast builder (cond / contrast) of one instance   *)
(*                whose design comes from a formula or a raw matrix;       *)
(*   SpecRunDe    the entry point run_de;                                  *)
(*   SpecData     the caller's AnnData object, its mask and its layers;    *)
(*   SpecStale    an instance whose feature set changes after fit;         *)
(*   SpecAdjust   the adjusted p-values of a backend's result table.       *)
(*                                                                         *)
(* The statistical engines (statsmodels, pydeseq2, edgeR through rpy2) and *)
(* the formula compiler (formulaic) are external; they are modelled by     *)
(* what the calls made here observe of them.                               *)
(***************************************************************************)
EXTENDS Integers, Sequences, FiniteSets, TLC

VARIABLES
    insts,      \* instance name -> <<>> (not constructed) or <<the instance's attributes>>
    globalenv,  \* rpy2's ro.globalenv: the R session's global variable "fit"
    caller,     \* <<the AnnData object the caller holds>>, or <<>> where the
                \* calls draw their AnnData argument afresh
    ret         \* what the last call did: returned value or raised exception

vars == <<insts, globalenv, caller, ret>>

-----------------------------------------------------------------------------
(* Bounds of the model *)

\* largest number of features (adata.n_vars) of a caller's AnnData
MaxFeatures == 2

\* largest number of named contrasts in a mapping given to test_contrasts
MaxContrasts == 2

\* resolution of the p-values an engine reports: they are the multiples
\* 0/MaxP, 1/MaxP, ..., MaxP/MaxP
MaxP == 8

-----------------------------------------------------------------------------
(* Generic helpers *)

Range(s) == {s[i] : i \in DOMAIN s}

RECURSIVE SelectIdx(_, _, _)
\* the subsequence of s at the positions i >= from where keep[i] holds
SelectIdx(s, keep, from) ==
    IF from > Len(s) THEN <<>>
    ELSE (IF keep[from] THEN <<s[from]>> ELSE <<>>) \o SelectIdx(s, keep, from + 1)

\* outcomes of a call
Return(v) == [kind |-> "return", exc |-> "", value |-> v]
Raise(e) == [kind |-> "raise", exc |-> e, value |-> <<>>]

-----------------------------------------------------------------------------
(* formulaic: formula + adata.obs -> ModelMatrix with model_spec *)

\* levels of the categorical columns of adata.obs (the test fixtures' metadata)
ObsLevels ==
    [condition |-> <<"A", "B">>, donor |-> <<"D0", "D1", "D2", "D3">>]

\* The formulas of the tests, parsed: rhs terms in order.  expr is the factor
\* expression (the key of model_spec.encoder_state and the prefix of the
\* column names), var the obs column it reads, base an explicit reference
\* level (contr.treatment(base=...)) or <<>>.
ParsedFormula ==
    [f_condition |->
        [text |-> "~ condition", intercept |-> TRUE,
         terms |-> <<[expr |-> "condition", var |-> "condition", base |-> <<>>]>>],
     f_0_condition |->
        [text |-> "~ 0 + condition", intercept |-> FALSE,
         terms |-> <<[expr |-> "condition", var |-> "condition", base |-> <<>>]>>],
     f_donor |->
        [text |-> "~ donor", intercept |-> TRUE,
         terms |-> <<[expr |-> "donor", var |-> "donor", base |-> <<>>]>>],
     f_C_donor |->
        [text |-> "~ C(donor)", intercept |-> TRUE,
         terms |-> <<[expr |-> "C(donor)", var |-> "donor", base |-> <<>>]>>],
     f_C_donor_D2 |->
        [text |-> "~ C(donor, contr.treatment(base='D2'))", intercept |-> TRUE,
         terms |-> <<[expr |-> "C(donor, contr.treatment(base='D2'))",
                      var |-> "donor", base |-> <<"D2">>]>>],
     f_condition_donor |->
        [text |-> "~ condition + donor", intercept |-> TRUE,
         terms |-> <<[expr |-> "condition", var |-> "condition", base |-> <<>>],
                     [expr |-> "donor", var |-> "donor", base |-> <<>>]>>],
     f_0_condition_donor |->
        [text |-> "~ 0 + condition + donor", intercept |-> FALSE,
         terms |-> <<[expr |-> "condition", var |-> "condition", base |-> <<>>],
                     [expr |-> "donor", var |-> "donor", base |-> <<>>]>>]]

Formulas == DOMAIN ParsedFormula

\* A design column name, kept structured: "Intercept" is
\* [factor |-> "Intercept", enc |-> "", level |-> ""]; "donor[T.D1]" is
\* [factor |-> "donor", enc |-> "T", level |-> "D1"]; the full-indicator
\* column "condition[A]" is [factor |-> "condition", enc |-> "", level |-> "A"].
InterceptCol == [factor |-> "Intercept", enc |-> "", level |-> ""]

\* reference level of a term: the explicit base, else the first level
RefLevel(term) ==
    IF term.base # <<>> THEN term.base[1] ELSE ObsLevels[term.var][1]

\* columns a term contributes: every level (full indicator) when the term
\* has to span the intercept, else every level but the reference ([T.level])
TermCols(term, full) ==
    LET lv == ObsLevels[term.var]
        keep == [i \in DOMAIN lv |-> full \/ lv[i] # RefLevel(term)]
        kept == SelectIdx(lv, keep, 1)
    IN  [i \in DOMAIN kept |->
            [factor |-> term.expr, enc |-> IF full THEN "" ELSE "T", level |-> kept[i]]]

RECURSIVE TermsCols(_, _, _)
TermsCols(terms, i, full) ==
    IF i > Len(terms) THEN <<>>
    ELSE TermCols(terms[i], full) \o TermsCols(terms, i + 1, FALSE)

\* model_matrix(formula, obs).columns : with an intercept one reference level
\* per categorical is dropped; without, the first categorical term gets a
\* column for every level
model_matrix_columns(f) ==
    LET p == ParsedFormula[f]
    IN  (IF p.intercept THEN <<InterceptCol>> ELSE <<>>)
        \o TermsCols(p.terms, 1, ~p.intercept)

\* The design attribute of an instance: a formulaic ModelMatrix (built from a
\* formula string) or the raw matrix the caller passed
FormulaDesign(f) == [kind |-> "ModelMatrix", formula |-> f, ncol |-> Len(model_matrix_columns(f))]
MatrixDesign(n) == [kind |-> "ndarray", formula |-> "", ncol |-> n]

\* design.columns
Columns(design) == model_matrix_columns(design.formula)

\* BaseMethod.variables: model_spec.variables_by_source["data"], a set
variables(design) == {ParsedFormula[design.formula].terms[i].var :
                        i \in DOMAIN ParsedFormula[design.formula].terms}

\* model_spec.encoder_state is keyed by factor expression
EncoderKeys(design) == {ParsedFormula[design.formula].terms[i].expr :
                          i \in DOMAIN ParsedFormula[design.formula].terms}

\* model_spec.get_model_matrix(df) for a one-row df: the row of the design
\* for an observation with the levels of assignment (obs column -> level)
get_model_matrix(design, assignment) ==
    LET p == ParsedFormula[design.formula]
        cols == Columns(design)
        VarOf(expr) == (CHOOSE i \in DOMAIN p.terms : p.terms[i].expr = expr)
    IN  [i \in DOMAIN cols |->
            IF cols[i] = InterceptCol THEN 1
            ELSE IF assignment[p.terms[VarOf(cols[i].factor)].var] = cols[i].level
                 THEN 1 ELSE 0]

-----------------------------------------------------------------------------
(* BaseMethod.cond and BaseMethod.contrast (tl/de.py) *)

Sub(a, b) == [i \in DOMAIN a |-> a[i] - b[i]]
Neg(a) == [i \in DOMAIN a |-> 0 - a[i]]

\* all orders in which a loop can visit the elements of a set
Orders(S) == {o \in [1..Cardinality(S) -> S] : Range(o) = S}

\* str.startswith(f"{var}[") on a column name
StartsWithVar(col, var) == col # InterceptCol /\ col.factor = var

\* re ^.+\[T\.(.+)\]$ matches the column name (else .search gives None)
MatchesTreatment(col) == col # InterceptCol /\ col.enc = "T"

\* _get_var_from_colname on a matching name
get_var_from_colname(col) == col.level

RECURSIVE CondLoop(_, _, _, _)
\* the loop "for var in self.variables" of cond, from position i of order on,
\* cond_dict being kwargs as filled so far: the completed dict or the raise
CondLoop(design, order, i, cond_dict) ==
    IF i > Len(order) THEN Return(cond_dict)
    ELSE
      LET var == order[i] IN
      IF var \notin EncoderKeys(design) THEN Raise("KeyError")
      ELSE
        LET all_categories == Range(ObsLevels[var]) IN
        IF var \in DOMAIN cond_dict
        THEN IF cond_dict[var] \notin all_categories
             THEN Raise("ValueError")
             ELSE CondLoop(design, order, i + 1, cond_dict)
        ELSE
          LET var_cols == SelectSeq(Columns(design), LAMBDA c : StartsWithVar(c, var)) IN
          IF \E k \in DOMAIN var_cols : ~MatchesTreatment(var_cols[k])
          THEN Raise("AttributeError")
          ELSE
            LET present_categories == {get_var_from_colname(var_cols[k]) : k \in DOMAIN var_cols}
                dropped_category == all_categories \ present_categories
            IN  IF Cardinality(dropped_category) # 1
                THEN Raise("AssertionError")
                ELSE CondLoop(design, order, i + 1,
                              cond_dict @@ (var :> (CHOOSE x \in dropped_category : TRUE)))

\* cond without the isinstance(self.design, ModelMatrix) check: a raw matrix
\* is answered with a row of zeros
cond_NoDesignCheck(design, order, kwargs) ==
    IF design.kind # "ModelMatrix" THEN Return([i \in 1..design.ncol |-> 0])
    ELSE LET filled == CondLoop(design, order, 1, kwargs)
         IN  IF filled.kind = "raise" THEN filled
             ELSE Return(get_model_matrix(design, filled.value))

\* cond(**kwargs); order is the iteration order of the set self.variables
cond(design, order, kwargs) ==
    IF design.kind # "ModelMatrix" THEN Raise("RuntimeError")
    ELSE LET filled == CondLoop(design, order, 1, kwargs)
         IN  IF filled.kind = "raise" THEN filled
             ELSE Return(get_model_matrix(design, filled.value))

\* contrast that compares the baseline with the reference row instead of
\* with group_to_compare
contrast_AgainstReference(design, order, column, baseline, group_to_compare) ==
    LET a == cond(design, order, (column :> baseline)) IN
    IF a.kind = "raise" THEN a
    ELSE LET b == cond(design, order, <<>>) IN
         IF b.kind = "raise" THEN b
         ELSE Return(Sub(a.value, b.value))

\* contrast(column, baseline, group_to_compare)
contrast(design, order, column, baseline, group_to_compare) ==
    LET a == cond(design, order, (column :> baseline)) IN
    IF a.kind = "raise" THEN a
    ELSE LET b == cond(design, order, (column :> group_to_compare)) IN
         IF b.kind = "raise" THEN b
         ELSE Return(Sub(a.value, b.value))

-----------------------------------------------------------------------------
(* AnnData inputs and BaseMethod.__init__ (tl/de.py) *)

\* the two instances a caller holds
Names == {"mA", "mB"}

\* the backends: tl/de.py's StatsmodelsDE, PyDESeq2DE, EdgeRDE and
\* WilcoxonTest, and methods/_edger.py's EdgeRDE (exported as EdgeR)
Classes == {"StatsmodelsDE", "PyDESeq2DE", "EdgeRDE", "EdgeR", "WilcoxonTest"}

\* A count matrix is summarised per feature (column): "ok" a column of
\* non-negative integer counts, "nan" / "inf" a column holding such a value.
\* dtype "str" is what numpy makes of a matrix holding a string such as "foo".
CellKinds == {"ok", "nan", "inf"}
Dtypes == {"float64", "str", "bool"}
Storages == {"ndarray", "csr_matrix"}

Matrices(n) ==
    {m \in [dtype : Dtypes, storage : Storages, cells : [1..n -> CellKinds]] :
        /\ m.dtype # "float64" => \A i \in 1..n : m.cells[i] = "ok"
        /\ m.storage = "csr_matrix" => m.dtype # "str"}

\* the caller's AnnData objects: features are named 1..n_vars; layers is the
\* sequence of the named layers, [name |-> ..., m |-> the layer's matrix]
AnnDatas ==
    UNION {[var_names : {[i \in 1..n |-> i]}, X : Matrices(n), layers : {<<>>}] :
             n \in 1..MaxFeatures}

\* mask argument: None (<<>>) or a boolean column of adata.var selecting
\* at least one feature
Masks(adata) ==
    {<<>>} \cup {<<m>> : m \in {b \in [DOMAIN adata.var_names -> BOOLEAN] :
                                    \E i \in DOMAIN b : b[i]}}

\* adata[:, adata.var[mask]]: the features, X and every layer subset alike
Subset(adata, m) ==
    [var_names |-> SelectIdx(adata.var_names, m, 1),
     X |-> [adata.X EXCEPT !.cells = SelectIdx(adata.X.cells, m, 1)],
     layers |-> [k \in DOMAIN adata.layers |->
                   [adata.layers[k] EXCEPT !.m.cells = SelectIdx(adata.layers[k].m.cells, m, 1)]]]

\* adata.layers[name]
HasLayer(adata, name) == \E k \in DOMAIN adata.layers : adata.layers[k].name = name
Layer(adata, name) ==
    adata.layers[CHOOSE k \in DOMAIN adata.layers : adata.layers[k].name = name].m

\* the first statements of __init__ with the subset taken in place of the
\* caller's object instead of as a new object
apply_mask_InPlace(adata, mask) ==
    LET a == IF mask = <<>> THEN adata ELSE Subset(adata, mask[1])
    IN  [caller |-> a, self_adata |-> a]

\* self.adata = adata; if mask is not None: self.adata = self.adata[:, ...]
\* : the object the caller holds after these statements, and self.adata
apply_mask(adata, mask) ==
    [caller |-> adata,
     self_adata |-> IF mask = <<>> THEN adata ELSE Subset(adata, mask[1])]

\* design argument: a formula string or a raw design matrix
DesignArgs ==
    {[kind |-> "str", formula |-> "f_condition", ncol |-> 0],
     [kind |-> "ndarray", formula |-> "", ncol |-> 2]}

\* _check_count_matrix of methods/_edger.py's base class: all counts are
\* non-negative integers
check_count_matrix(X) == \A i \in DOMAIN X.cells : X.cells[i] = "ok"

\* _check_counts of each backend
check_counts(cls, adata) ==
    IF cls = "EdgeR" THEN check_count_matrix(adata.X) ELSE TRUE

\* np.isnan(X) / np.isinf(X) raise TypeError on a scipy sparse matrix and on
\* a string array
IsnanRaises(X) == X.storage # "ndarray" \/ X.dtype = "str"

\* BaseMethod.__init__ with the Inf check forgotten (only NaN is rejected)
BaseMethod_init_NoInfCheck(cls, adata, design, mask, layer) ==
    LET a == apply_mask(adata, mask).self_adata IN
    IF IsnanRaises(a.X) THEN Raise("TypeError")
    ELSE IF \E i \in DOMAIN a.X.cells : a.X.cells[i] = "nan"
    THEN Raise("ValueError")
    ELSE IF a.X.dtype # "float64" THEN Raise("ValueError")
    ELSE IF ~check_counts(cls, a) THEN Raise("ValueError")
    ELSE Return([cls |-> cls,
                 adata |-> a,
                 layer |-> layer,
                 design |-> IF design.kind = "str" THEN FormulaDesign(design.formula)
                            ELSE MatrixDesign(design.ncol),
                 models |-> <<>>,
                 dds |-> <<>>,
                 fit |-> <<>>,
                 fit_called |-> FALSE,
                 fit_returned |-> FALSE])

\* BaseMethod.__init__: the new instance's attributes, or the raise.
\* fit_called and fit_returned are history flags, not attributes: fit has
\* been called, and a call of fit has returned.
BaseMethod_init(cls, adata, design, mask, layer) ==
    LET a == apply_mask(adata, mask).self_adata IN
    IF IsnanRaises(a.X) THEN Raise("TypeError")
    ELSE IF \E i \in DOMAIN a.X.cells : a.X.cells[i] \in {"nan", "inf"}
    THEN Raise("ValueError")
    ELSE IF a.X.dtype # "float64" THEN Raise("ValueError")
    ELSE IF ~check_counts(cls, a) THEN Raise("ValueError")
    ELSE Return([cls |-> cls,
                 adata |-> a,
                 layer |-> layer,
                 design |-> IF design.kind = "str" THEN FormulaDesign(design.formula)
                            ELSE MatrixDesign(design.ncol),
                 models |-> <<>>,
                 dds |-> <<>>,
                 fit |-> <<>>,
                 fit_called |-> FALSE,
                 fit_returned |-> FALSE])

-----------------------------------------------------------------------------
(* Contrasts and result tables *)

\* a contrast as given to test_contrasts: a raw coefficient vector, a
\* symbolic triple (column, level, level), or the one-row ModelMatrix that
\* cond and contrast return (v is its row)
Vector(v) == [kind |-> "vector", v |-> v, t |-> <<>>]
Triple(c, a, b) == [kind |-> "triple", v |-> <<>>, t |-> <<c, a, b>>]
ModelMatrixRow(v) == [kind |-> "matrix", v |-> v, t |-> <<>>]

\* len(contrast): entries of a vector or triple, rows of a ModelMatrix
ContrastLen(c) ==
    CASE c.kind = "vector" -> Len(c.v)
      [] c.kind = "triple" -> Len(c.t)
      [] c.kind = "matrix" -> 1

RECURSIVE WeightFrom(_, _)
WeightFrom(v, i) == IF i > Len(v) THEN 0 ELSE i * v[i] + WeightFrom(v, i + 1)

\* Stand-in for the statistic an engine computes for one feature and one
\* contrast: the engines are deterministic functions of the fitted model
\* and the contrast, and the tables are sorted by this value.
PValue(feature, c) == (2 * feature + WeightFrom(c.v, 1)) % 3

\* one row of a backend's table: the feature it is labelled with, the fitted
\* model it was computed from, and the contrast the engine evaluated
Row(variable, model, endog, used) ==
    [variable |-> variable, model |-> model, used |-> used,
     pvalue |-> PValue(endog, used)]

RECURSIVE Insert(_, _)
\* a row put in its place in a table sorted by pvalue, after its equals
Insert(sorted, r) ==
    IF sorted = <<>> THEN <<r>>
    ELSE IF r.pvalue < Head(sorted).pvalue THEN <<r>> \o sorted
    ELSE <<Head(sorted)>> \o Insert(Tail(sorted), r)

RECURSIVE SortFrom(_, _)
SortFrom(rows, i) ==
    IF i = 0 THEN <<>> ELSE Insert(SortFrom(rows, i - 1), rows[i])

\* DataFrame.sort_values on the p-value column
sort_values(rows) == SortFrom(rows, Len(rows))

\* assign that leaves the contrast column None whatever the name
assign_contrast_Untagged(table, name) ==
    [i \in DOMAIN table |-> [contrast |-> <<>>] @@ table[i]]

\* DataFrame.assign(contrast=name) on a table
assign_contrast(table, name) ==
    [i \in DOMAIN table |-> [contrast |-> name] @@ table[i]]

-----------------------------------------------------------------------------
(* fit of each backend *)

\* expr = self.adata.X if self.layer is None else self.adata.layers[self.layer]
\* (and the same choice inside sc.get.obs_df(..., layer=self.layer)): the
\* matrix fit reads, or KeyError for a layer the AnnData does not have
expr(inst) ==
    IF inst.layer = <<>> THEN Return(inst.adata.X)
    ELSE IF HasLayer(inst.adata, inst.layer[1]) THEN Return(Layer(inst.adata, inst.layer[1]))
    ELSE Raise("KeyError")

\* StatsmodelsDE.fit / Statsmodels.fit: self.models = [] and one fitted
\* regression model per feature of self.adata, in var_names order; endog is
\* the feature whose values were regressed and data those values
StatsmodelsFit(self, inst) ==
    LET e == expr(inst) IN
    IF e.kind = "raise"
    THEN [out |-> e, inst |-> [inst EXCEPT !.models = <<<<>>>>]]
    ELSE [out |-> Return(<<>>),
          inst |-> [inst EXCEPT !.models =
                     <<[i \in DOMAIN inst.adata.var_names |->
                          [endog |-> inst.adata.var_names[i], data |-> e.value.cells[i],
                           exog |-> inst.design, by |-> self]]>>]]

\* PyDESeq2DE.fit: reads self.design.columns (a raw matrix has none), then
\* builds the DeseqDataSet of self.adata and keeps it as self.dds.  The
\* renaming of dds.obsm['design_matrix'].columns is taken to act on the
\* DeseqDataSet's copy of the design only.  DeseqDataSet(adata=...) takes
\* its counts from adata.X; self.layer is not used.
PyDESeq2Fit(self, inst) ==
    IF inst.design.kind # "ModelMatrix"
    THEN [out |-> Raise("AttributeError"), inst |-> inst]
    ELSE [out |-> Return(<<>>),
          inst |-> [inst EXCEPT !.dds =
                      <<[genes |-> inst.adata.var_names, counts |-> inst.adata.X,
                         design |-> inst.design, by |-> self]>>]]

\* edger.glmQLFit(dge, design): the R fit object of the counts read and
\* self.design
glmQLFit(self, inst, counts) ==
    [genes |-> inst.adata.var_names, counts |-> counts, design |-> inst.design, by |-> self]

\* EdgeRDE.fit (tl/de.py and methods/_edger.py): the fit object is stored in
\* the R session's global "fit" and in the attribute self.fit, which from
\* then on hides the method fit: a later self.fit(...) calls the R object
\* edger.DGEList(counts=...) stops on counts that are NA or not finite.
EdgeRFit(self, inst, genv) ==
    IF inst.fit # <<>>
    THEN [out |-> Raise("TypeError"), inst |-> inst, genv |-> genv]
    ELSE LET e == expr(inst) IN
         IF e.kind = "raise" THEN [out |-> e, inst |-> inst, genv |-> genv]
         ELSE IF \E i \in DOMAIN e.value.cells : e.value.cells[i] # "ok"
         THEN [out |-> Raise("RRuntimeError"), inst |-> inst, genv |-> genv]
         ELSE LET f == glmQLFit(self, inst, e.value) IN
              [out |-> Return(<<>>),
               inst |-> [inst EXCEPT !.fit = <<f>>],
               genv |-> [genv EXCEPT !.fit = <<f>>]]

\* WilcoxonTest.fit: only warns
WilcoxonFit(self, inst) == [out |-> Return(<<>>), inst |-> inst]

\* inst.fit(): outcome, the instance afterwards, the R session afterwards
fit(self, inst, genv) ==
    LET r == CASE inst.cls = "StatsmodelsDE" -> StatsmodelsFit(self, inst) @@ [genv |-> genv]
               [] inst.cls = "PyDESeq2DE" -> PyDESeq2Fit(self, inst) @@ [genv |-> genv]
               [] inst.cls \in {"EdgeRDE", "EdgeR"} -> EdgeRFit(self, inst, genv)
               [] inst.cls = "WilcoxonTest" -> WilcoxonFit(self, inst) @@ [genv |-> genv]
    IN  [r EXCEPT !.inst.fit_called = TRUE,
                  !.inst.fit_returned = @ \/ r.out.kind = "return"]

-----------------------------------------------------------------------------
(* _test_single_contrast of each backend *)

Min(a, b) == IF a < b THEN a ELSE b

\* mod.t_test(contrast) raises unless the contrast is numeric (a vector, or
\* a one-row matrix, which statsmodels reads as one restriction) with one
\* entry per column of the model's design
t_test_raises(mod, c) == c.kind \notin {"vector", "matrix"} \/ Len(c.v) # mod.exog.ncol

\* StatsmodelsDE._test_single_contrast: zip(var_names, self.models), one
\* t-test per pair, sorted by p-value
StatsmodelsTest(inst, c) ==
    IF inst.models = <<>> THEN Raise("AttributeError")
    ELSE
      LET models == inst.models[1]
          names == inst.adata.var_names
          n == Min(Len(names), Len(models))
      IN  IF \E i \in 1..n : t_test_raises(models[i], c) THEN Raise("ValueError")
          ELSE IF n = 0 THEN Raise("KeyError")
          ELSE Return(sort_values([i \in 1..n |-> Row(names[i], models[i], models[i].endog, c)]))

\* PyDESeq2DE._test_single_contrast: DeseqStats(self.dds, contrast) takes
\* ["variable", "tested level", "reference level"]; one row per gene of dds
PyDESeq2Test(inst, c) ==
    IF inst.dds = <<>> THEN Raise("AttributeError")
    ELSE
      LET dds == inst.dds[1] IN
      IF c.kind # "triple" THEN Raise("ValueError")
      ELSE IF \/ c.t[1] \notin variables(dds.design)
              \/ c.t[2] \notin Range(ObsLevels[c.t[1]])
              \/ c.t[3] \notin Range(ObsLevels[c.t[1]])
      THEN Raise("KeyError")
      ELSE Return(sort_values([i \in DOMAIN dds.genes |-> Row(dds.genes[i], dds, dds.genes[i], c)]))

\* The R code  test = edgeR::glmQLFTest(fit, contrast=contrast_vec);
\* de_res = edgeR::topTags(test, n=Inf, sort.by="PValue")$table  evaluated in
\* the R session: fit is the session's global variable.  glmLRT stops with
\* "contrast vector of wrong length" unless as.matrix(contrast) has one row
\* per coefficient, and with "contrasts are all zero"
glmQLFTest(genv, c) ==
    IF genv.fit = <<>> THEN Raise("RRuntimeError")
    ELSE
      LET f == genv.fit[1]
          \* nrow(as.matrix(contrast)): a 1 x n array arrives as a 1 x n matrix
          nrow == IF c.kind = "matrix" THEN 1 ELSE Len(c.v)
      IN
      IF \/ c.kind \notin {"vector", "matrix"}
         \/ nrow # f.design.ncol
         \/ \A i \in DOMAIN c.v : c.v[i] = 0
      THEN Raise("RRuntimeError")
      ELSE Return(sort_values([i \in DOMAIN f.genes |-> Row(f.genes[i], f, f.genes[i], c)]))

\* tl/de.py EdgeRDE._test_single_contrast: np.asarray(contrast) goes to R
EdgeRDETest(inst, genv, c) == glmQLFTest(genv, c)

\* f"{contrast[0]}[T.{contrast[ind]}]" for ind = 1, 2 (Python indices)
make_contrast_column_key(c, ind) ==
    IF c.kind = "triple"
    THEN [factor |-> c.t[1], enc |-> "T", level |-> c.t[ind + 1]]
    ELSE [factor |-> "number", enc |-> "T", level |-> "number"]

\* methods/_edger.py EdgeRDE._test_single_contrast, lines 136-140: the
\* contrast is read as a triple and turned into a 0/1 vector
EdgeRContrastVec(design, c) ==
    LET cols == Columns(design) IN
    [i \in DOMAIN cols |->
        IF \E ind \in {1, 2} : cols[i] = make_contrast_column_key(c, ind) THEN 1 ELSE 0]

EdgeRTest(inst, genv, c) ==
    IF inst.design.kind # "ModelMatrix" THEN Raise("AttributeError")
    ELSE IF ContrastLen(c) < 3 THEN Raise("IndexError")
    ELSE LET r == glmQLFTest(genv, Vector(EdgeRContrastVec(inst.design, c))) IN
         IF r.kind = "raise" THEN r ELSE Return(r.value)

\* WilcoxonTest._test_single_contrast: self.adata[contrast] and, in _test,
\* self.adata[contrast[0]] index the AnnData by a name that is no observation
WilcoxonTestSingle(inst, c) ==
    IF ContrastLen(c) # 3 THEN Raise("ValueError") ELSE Raise("KeyError")

test_single_contrast(inst, genv, c) ==
    CASE inst.cls = "StatsmodelsDE" -> StatsmodelsTest(inst, c)
      [] inst.cls = "PyDESeq2DE" -> PyDESeq2Test(inst, c)
      [] inst.cls = "EdgeRDE" -> EdgeRDETest(inst, genv, c)
      [] inst.cls = "EdgeR" -> EdgeRTest(inst, genv, c)
      [] inst.cls = "WilcoxonTest" -> WilcoxonTestSingle(inst, c)

-----------------------------------------------------------------------------
(* BaseMethod.test_contrasts *)

\* the argument: a bare contrast, or a dict name -> contrast (its items in
\* insertion order)
Bare(c) == [isdict |-> FALSE, bare |-> <<c>>, items |-> <<>>]
Dict(items) == [isdict |-> TRUE, bare |-> <<>>, items |-> items]
Item(name, c) == [name |-> name, contrast |-> c]

RECURSIVE TestLoop(_, _, _, _, _)
\* the loop over contrasts.items(), then pd.concat(results)
TestLoop(inst, genv, items, i, results) ==
    IF i > Len(items)
    THEN IF Len(items) = 0 THEN Raise("ValueError") ELSE Return(results)
    ELSE LET r == test_single_contrast(inst, genv, items[i].contrast) IN
         IF r.kind = "raise" THEN r
         ELSE TestLoop(inst, genv, items, i + 1,
                       results \o assign_contrast(r.value, items[i].name))

\* name None is <<>>, name "c1" is <<"c1">>
test_contrasts(inst, genv, contrasts) ==
    LET items == IF ~contrasts.isdict THEN <<Item(<<>>, contrasts.bare[1])>>
                 ELSE contrasts.items
    IN  TestLoop(inst, genv, items, 1, <<>>)

-----------------------------------------------------------------------------
(* Inputs of the calls *)

\* contrasts a caller passes for the design "~ condition" (two columns): raw
\* vectors of the right and of the wrong length, and symbolic triples
ContrastArgs ==
    {Vector(<<0, 1>>), Vector(<<0, -1>>), Vector(<<0, 1, 0>>),
     Triple("condition", "A", "B"), Triple("condition", "B", "A")}

\* contrasts used inside mappings
DictContrastArgs ==
    {Vector(<<0, 1>>), Vector(<<0, -1>>), Triple("condition", "A", "B")}

\* the k-th key of a mapping
ContrastName(k) == <<k>>

\* mappings of up to MaxContrasts named contrasts (the empty one included)
ContrastDicts ==
    UNION {{Dict([k \in 1..n |-> Item(ContrastName(k), cs[k])]) :
              cs \in [1..n -> DictContrastArgs]} : n \in 0..MaxContrasts}

TestArgs == {Bare(c) : c \in ContrastArgs} \cup ContrastDicts

\* keyword arguments of cond: any subset of the obs columns, each with one of
\* its levels or with "Z", a level that does not exist
LevelArgs(var) == Range(ObsLevels[var]) \cup {"Z"}

CondKwargs ==
    UNION {{k \in [S -> UNION {LevelArgs(v) : v \in S}] : \A v \in S : k[v] \in LevelArgs(v)} :
             S \in SUBSET DOMAIN ObsLevels}

\* designs of the contrast-builder specification: every formula and a raw matrix
CondDesignArgs ==
    {[kind |-> "str", formula |-> f, ncol |-> 0] : f \in Formulas}
    \cup {[kind |-> "ndarray", formula |-> "", ncol |-> 2]}

NoCall == [op |-> "", self |-> "", args |-> <<>>, out |-> Return(<<>>)]

-----------------------------------------------------------------------------
(* The lifecycle of one instance: construct, fit, test_contrasts *)

Init ==
    /\ insts = [n \in Names |-> <<>>]
    /\ globalenv = [fit |-> <<>>]
    /\ caller = <<>>
    /\ ret = NoCall

\* self = cls(adata, design, mask=mask): ret records the class and the
\* matrix the constructor checked (adata after the mask)
Construct(self) ==
    /\ insts[self] = <<>>
    /\ \E cls \in Classes, adata \in AnnDatas, design \in DesignArgs :
         \E mask \in Masks(adata) :
           LET out == BaseMethod_init(cls, adata, design, mask, <<>>)
               checked == IF mask = <<>> THEN adata ELSE Subset(adata, mask[1])
           IN  /\ insts' = IF out.kind = "return"
                           THEN [insts EXCEPT ![self] = <<out.value>>]
                           ELSE insts
               /\ ret' = [op |-> "__init__", self |-> self,
                          args |-> [cls |-> cls, checked |-> checked],
                          out |-> IF out.kind = "return" THEN Return(<<>>) ELSE out]
    /\ UNCHANGED <<globalenv, caller>>

\* self.fit(): ret.args.refit tells whether an earlier fit had returned
Fit(self) ==
    /\ insts[self] # <<>>
    /\ LET r == fit(self, insts[self][1], globalenv) IN
         /\ insts' = [insts EXCEPT ![self] = <<r.inst>>]
         /\ globalenv' = r.genv
         /\ ret' = [op |-> "fit", self |-> self,
                    args |-> [refit |-> insts[self][1].fit_returned],
                    out |-> r.out]
    /\ UNCHANGED caller

\* self.test_contrasts(contrasts), contrasts drawn from args
TestContrastsOf(self, args) ==
    /\ insts[self] # <<>>
    /\ \E contrasts \in args :
         ret' = [op |-> "test_contrasts", self |-> self,
                 args |-> contrasts,
                 out |-> test_contrasts(insts[self][1], globalenv, contrasts)]
    /\ UNCHANGED <<insts, globalenv, caller>>

TestContrasts(self) == TestContrastsOf(self, TestArgs)

Next == Construct("mA") \/ Fit("mA") \/ TestContrasts("mA")

Spec == Init /\ [][Next]_vars

-----------------------------------------------------------------------------
(* Two instances and the R session they share *)

\* every instance a constructor call returns for a formula design
ConstructedInstances ==
    {BaseMethod_init(x.cls, x.adata, x.design, x.mask, <<>>).value :
       x \in {y \in UNION {[cls : Classes, adata : {adata}, mask : Masks(adata),
                            design : {d \in DesignArgs : d.kind = "str"}] :
                             adata \in AnnDatas} :
                BaseMethod_init(y.cls, y.adata, y.design, y.mask, <<>>).kind = "return"}}

\* both instances constructed, none fitted, the R session fresh
InitSession ==
    /\ insts \in [Names -> {<<i>> : i \in ConstructedInstances}]
    /\ globalenv = [fit |-> <<>>]
    /\ caller = <<>>
    /\ ret = NoCall

\* self.test_contrasts(contrast) with a bare contrast
TestContrast(self) == TestContrastsOf(self, {Bare(c) : c \in ContrastArgs})

NextSession == \E self \in Names : Fit(self) \/ TestContrast(self)

SpecSession == InitSession /\ [][NextSession]_vars

-----------------------------------------------------------------------------
(* The contrast builder: cond and contrast on one instance *)

\* a minimal AnnData, as the tests' test_adata_minimal
AdataMinimal ==
    [var_names |-> <<1>>,
     X |-> [dtype |-> "float64", storage |-> "ndarray", cells |-> <<"ok">>],
     layers |-> <<>>]

InitCond ==
    /\ \E design \in CondDesignArgs :
         insts = [n \in Names |->
                    IF n = "mA"
                    THEN <<BaseMethod_init("StatsmodelsDE", AdataMinimal, design, <<>>, <<>>).value>>
                    ELSE <<>>]
    /\ globalenv = [fit |-> <<>>]
    /\ caller = <<>>
    /\ ret = NoCall

\* the orders in which cond may visit self.variables
VariableOrders(design) ==
    IF design.kind = "ModelMatrix" THEN Orders(variables(design)) ELSE {<<>>}

\* self.cond(**kwargs)
Cond(self) ==
    /\ insts[self] # <<>>
    /\ \E kwargs \in CondKwargs, order \in VariableOrders(insts[self][1].design) :
         ret' = [op |-> "cond", self |-> self,
                 args |-> [kwargs |-> kwargs, order |-> order],
                 out |-> cond(insts[self][1].design, order, kwargs)]
    /\ UNCHANGED <<insts, globalenv, caller>>

\* self.contrast(column, baseline, group_to_compare)
Contrast(self) ==
    /\ insts[self] # <<>>
    /\ \E column \in DOMAIN ObsLevels, order \in VariableOrders(insts[self][1].design) :
         \E baseline \in LevelArgs(column), group_to_compare \in LevelArgs(column) :
           ret' = [op |-> "contrast", self |-> self,
                   args |-> [column |-> column, baseline |-> baseline,
                             group_to_compare |-> group_to_compare, order |-> order],
                   out |-> contrast(insts[self][1].design, order,
                                    column, baseline, group_to_compare)]
    /\ UNCHANGED <<insts, globalenv, caller>>

NextCond == \E self \in Names : Cond(self) \/ Contrast(self)

SpecCond == InitCond /\ [][NextCond]_vars

-----------------------------------------------------------------------------
(* tl/wrapper.py: the registry and run_de *)

\* MethodRegistry: backend name -> class of tl/de.py
MethodRegistry ==
    [DESeq |-> "PyDESeq2DE", edgeR |-> "EdgeRDE", statsmodels |-> "StatsmodelsDE"]

\* the Literal[...] annotation of run_de's parameter method
MethodLiteral == {"DESeq", "edgeR", "statsmodels"}

\* the columns of the DataFrame test_contrasts returns: those of the
\* backend's _test_single_contrast (statsmodels: the dict keys but the index
\* "variable"; pydeseq2: results_df; edgeR: topTags' table, renamed in
\* methods/_edger.py only) and the assigned column "contrast"
TableColumns(cls) ==
    {"contrast"} \cup
    CASE cls = "StatsmodelsDE" -> {"pvalue", "tvalue", "sd", "fold_change"}
      [] cls = "PyDESeq2DE" -> {"baseMean", "log2FoldChange", "lfcSE", "stat", "pvalue", "padj"}
      [] cls = "EdgeRDE" -> {"logFC", "logCPM", "F", "PValue", "FDR"}
      [] cls = "EdgeR" -> {"logfoldchanges", "logCPM", "F", "pvals", "pvals_adj"}
      [] cls = "WilcoxonTest" -> {"pvalue", "fold_change"}

\* a DataFrame as run_de's caller sees it: rows, columns, and the index
\* (the feature each row is labelled with)
DataFrame(cls, table) ==
    [rows |-> table,
     columns |-> TableColumns(cls),
     index |-> [i \in DOMAIN table |-> table[i].variable]]

RECURSIVE ResolveLoop(_, _, _, _, _)
\* the dict comprehension of run_de: name -> model.contrast(...) for every
\* item of contrasts, in order; the value is contrast's one-row ModelMatrix
ResolveLoop(design, order, items, i, resolved) ==
    IF i > Len(items) THEN Return(resolved)
    ELSE LET t == items[i].contrast.t
             r == contrast(design, order, t[1], t[2], t[3])
         IN  IF r.kind = "raise" THEN r
             ELSE ResolveLoop(design, order, items, i + 1,
                              Append(resolved, Item(items[i].name, ModelMatrixRow(r.value))))

\* run_de, line 63: the table of test_contrasts is returned as it is
run_de_return(cls, genv, called, res) ==
    [out |-> IF res.kind = "raise" THEN res ELSE Return(DataFrame(cls, res.value)),
     genv |-> genv,
     steps |-> Append(called, "test_contrasts")]

\* run_de, lines 55-61: model.test_contrasts({...}) on the resolved contrasts
run_de_test_contrasts(inst, genv, called, resolved) ==
    IF resolved.kind = "raise"
    THEN [out |-> resolved, genv |-> genv, steps |-> called]
    ELSE run_de_return(inst.cls, genv, called,
                       test_contrasts(inst, genv, Dict(resolved.value)))

\* run_de from line 52 on, fitted being what model.fit() did
run_de_fit(contrasts, order, fitted) ==
    IF fitted.out.kind = "raise"
    THEN [out |-> fitted.out, genv |-> fitted.genv, steps |-> <<"__init__", "fit">>]
    ELSE IF ~contrasts.isdict
    THEN \* contrasts.items() on a list
         [out |-> Raise("AttributeError"), genv |-> fitted.genv,
          steps |-> <<"__init__", "fit">>]
    ELSE run_de_test_contrasts(
             fitted.inst, fitted.genv,
             IF contrasts.items = <<>> THEN <<"__init__", "fit">>
             ELSE <<"__init__", "fit", "contrast">>,
             ResolveLoop(fitted.inst.design, order, contrasts.items, 1, <<>>))

\* run_de from line 49 on, init being what the constructor did
run_de_init(contrasts, order, genv, init) ==
    IF init.kind = "raise"
    THEN [out |-> init, genv |-> genv, steps |-> <<"__init__">>]
    ELSE run_de_fit(contrasts, order, fit("model", init.value, genv))

\* run_de that falls back to the statsmodels backend for an unknown name
run_de_DefaultBackend(adata, contrasts, method, design, mask, layer, order, genv) ==
    run_de_init(contrasts, order, genv,
                BaseMethod_init(IF method \in DOMAIN MethodRegistry
                                THEN MethodRegistry[method] ELSE "StatsmodelsDE",
                                adata, design, mask, layer))

\* run_de(adata, contrasts, method, design, mask, layer): the outcome, the R
\* session afterwards, and the steps that were executed.  order is the
\* iteration order of the set model.variables inside cond.
run_de(adata, contrasts, method, design, mask, layer, order, genv) ==
    IF method \notin DOMAIN MethodRegistry
    THEN [out |-> Raise("KeyError"), genv |-> genv, steps |-> <<>>]
    ELSE run_de_init(contrasts, order, genv,
                     BaseMethod_init(MethodRegistry[method], adata, design, mask, layer))

\* backend names a caller passes: the annotated ones and one that is not
MethodArgs == MethodLiteral \cup {"wilcoxon"}

\* AnnData arguments of run_de: dense numeric matrices, valid or not
RunDeAnnDatas ==
    {a \in AnnDatas : a.X.storage = "ndarray" /\ a.X.dtype = "float64"}

\* contrasts arguments of run_de: the list of the tests' test_simple, an
\* empty mapping, and mappings of one pairwise contrast
RunDeContrasts ==
    {Bare(Triple("condition", "A", "B")), Dict(<<>>)}
    \cup {Dict(<<Item(ContrastName(1), Triple("condition", t[1], t[2]))>>) :
             t \in {<<"A", "B">>, <<"B", "A">>, <<"A", "Z">>}}

InitRunDe == Init

\* the effect of a run_de call with arguments args that did r
RunDeDone(args, r) ==
    /\ globalenv' = r.genv
    /\ ret' = [op |-> "run_de", self |-> "model", args |-> args,
               out |-> r.out, steps |-> r.steps]

\* run_de(adata, contrasts, method, design) in an R session that holds no
\* fit yet
RunDe ==
    /\ globalenv.fit = <<>>
    /\ \E method \in MethodArgs, adata \in RunDeAnnDatas, design \in DesignArgs,
          contrasts \in RunDeContrasts :
         \E order \in VariableOrders(IF design.kind = "str" THEN FormulaDesign(design.formula)
                                      ELSE MatrixDesign(design.ncol)) :
           RunDeDone([adata |-> adata, contrasts |-> contrasts,
                      method |-> method, design |-> design],
                     run_de(adata, contrasts, method, design, <<>>, <<>>, order, globalenv))
    /\ UNCHANGED <<insts, caller>>

NextRunDe == RunDe

SpecRunDe == InitRunDe /\ [][NextRunDe]_vars

-----------------------------------------------------------------------------
(* The caller's AnnData object: feature mask and layers *)

\* dense numeric matrices of n features, each feature valid or holding a NaN
DenseMatrices(n) ==
    {m \in Matrices(n) : /\ m.storage = "ndarray"
                         /\ m.dtype = "float64"
                         /\ \A i \in 1..n : m.cells[i] \in {"ok", "nan"}}

\* AnnData objects with no layer or with the layer "counts"
LayeredAnnDatas ==
    UNION {[var_names : {[i \in 1..n |-> i]},
            X : DenseMatrices(n),
            layers : {<<>>} \cup {<<[name |-> "counts", m |-> l]>> : l \in DenseMatrices(n)}] :
             n \in 1..MaxFeatures}

\* layer argument: None or the name of a layer
LayerArgs == {<<>>, <<"counts">>}

\* the caller holds one AnnData object; no instance yet
InitData ==
    /\ insts = [n \in Names |-> <<>>]
    /\ globalenv = [fit |-> <<>>]
    /\ caller \in {<<a>> : a \in LayeredAnnDatas}
    /\ ret = NoCall

\* self = cls(adata, "~ condition", mask=mask, layer=layer) on the object the
\* caller holds; ret.args.adata is that object as it was before the call
ConstructOn(self) ==
    /\ insts[self] = <<>>
    /\ caller # <<>>
    /\ \E cls \in Classes, mask \in Masks(caller[1]), layer \in LayerArgs :
         LET design == [kind |-> "str", formula |-> "f_condition", ncol |-> 0]
             out == BaseMethod_init(cls, caller[1], design, mask, layer)
         IN  /\ insts' = IF out.kind = "return"
                         THEN [insts EXCEPT ![self] = <<out.value>>]
                         ELSE insts
             /\ caller' = <<apply_mask(caller[1], mask).caller>>
             /\ ret' = [op |-> "__init__", self |-> self,
                        args |-> [cls |-> cls,
                                  checked |-> apply_mask(caller[1], mask).self_adata,
                                  adata |-> caller[1], mask |-> mask, layer |-> layer],
                        out |-> IF out.kind = "return" THEN Return(<<>>) ELSE out]
    /\ UNCHANGED globalenv

NextData == ConstructOn("mA") \/ Fit("mA")

SpecData == InitData /\ [][NextData]_vars

-----------------------------------------------------------------------------
(* An instance whose feature set changes after fit *)

\* Without a mask self.adata is the caller's object itself (self.adata =
\* adata), so what the caller does to its AnnData in place is seen by the
\* instance.  The caller holds a valid AnnData and one instance built on it
\* without a mask.
InitStale ==
    /\ \E cls \in Classes, adata \in {a \in LayeredAnnDatas :
                                        a.layers = <<>> /\ check_count_matrix(a.X)} :
         /\ caller = <<adata>>
         /\ insts = [n \in Names |->
                       IF n = "mA"
                       THEN <<BaseMethod_init(cls, adata,
                                [kind |-> "str", formula |-> "f_condition", ncol |-> 0],
                                <<>>, <<>>).value>>
                       ELSE <<>>]
    /\ globalenv = [fit |-> <<>>]
    /\ ret = NoCall

\* the caller drops features of its AnnData in place (as an in-place gene
\* filter does), keeping at least one: self.adata, the same object, changes
\* with it; the fitted state of the instance is not touched
FilterGenes(self) ==
    /\ insts[self] # <<>>
    /\ caller # <<>>
    /\ \E keep \in [DOMAIN caller[1].var_names -> BOOLEAN] :
         /\ \E i \in DOMAIN keep : keep[i]
         /\ \E i \in DOMAIN keep : ~keep[i]
         /\ caller' = <<Subset(caller[1], keep)>>
         /\ insts' = [insts EXCEPT ![self] = <<[insts[self][1] EXCEPT !.adata = Subset(caller[1], keep)]>>]
         /\ ret' = [op |-> "filter_genes", self |-> self,
                    args |-> [keep |-> keep], out |-> Return(<<>>)]
    /\ UNCHANGED globalenv

NextStale == Fit("mA") \/ FilterGenes("mA") \/ TestContrast("mA")

SpecStale == InitStale /\ [][NextStale]_vars

-----------------------------------------------------------------------------
(* Adjusted p-values of a backend's table *)

RECURSIVE Factorial(_)
Factorial(n) == IF n = 0 THEN 1 ELSE n * Factorial(n - 1)

\* A p-value k/MaxP is the integer k.  An adjusted p-value is kept in units
\* of 1/(MaxP * Scale), so that the quotients of the correction are exact.
Scale == Factorial(MaxFeatures)

SetMin(S) == CHOOSE x \in S : \A y \in S : x <= y

\* statsmodels.stats.multitest.fdrcorrection(pvals)[1] and R's
\* p.adjust(p, "BH"), the Benjamini-Hochberg correction of m p-values: the
\* i-th becomes min(1, min over the p-values p >= pvals[i] of m * p / rank(p))
fdrcorrection(pvals) ==
    LET m == Len(pvals)
        rank(k) == Cardinality({j \in DOMAIN pvals : pvals[j] <= pvals[k]})
    IN  [i \in DOMAIN pvals |->
           SetMin({MaxP * Scale} \cup
                  {(m * pvals[k] * Scale) \div rank(k) :
                      k \in {j \in DOMAIN pvals : pvals[j] >= pvals[i]}})]

\* the p-values of the tests of one contrast on the features 1..n
PValueArgs == UNION {[1..n -> 0..MaxP] : n \in 1..MaxFeatures}

\* methods/_statsmodels.py Statsmodels._test_single_contrast: per feature the
\* t-test's p-value and fdrcorrection(np.array([t_test.pvalue]))[1].item(),
\* then sort_values("p_value")
StatsmodelsAdjusted(pvalues) ==
    sort_values([i \in DOMAIN pvalues |->
                   [variable |-> i, pvalue |-> pvalues[i],
                    adjusted |-> fdrcorrection(<<pvalues[i]>>)[1]]])

\* edgeR::topTags(test, n=Inf, adjust.method="BH", sort.by="PValue")$table:
\* FDR is p.adjust over the p-values of all genes
topTags(pvalues) ==
    sort_values([i \in DOMAIN pvalues |->
                   [variable |-> i, pvalue |-> pvalues[i],
                    adjusted |-> fdrcorrection(pvalues)[i]]])

InitAdjust == Init

\* Statsmodels._test_single_contrast on models whose t-tests give pvalues
StatsmodelsTestSingleContrast ==
    /\ \E pvalues \in PValueArgs :
         ret' = [op |-> "_test_single_contrast", self |-> "Statsmodels",
                 args |-> [pvalues |-> pvalues],
                 out |-> Return(StatsmodelsAdjusted(pvalues))]
    /\ UNCHANGED <<insts, globalenv, caller>>

\* EdgeRDE._test_single_contrast on a fit whose tests give pvalues
EdgeRTestSingleContrast ==
    /\ \E pvalues \in PValueArgs :
         ret' = [op |-> "_test_single_contrast", self |-> "EdgeR",
                 args |-> [pvalues |-> pvalues],
                 out |-> Return(topTags(pvalues))]
    /\ UNCHANGED <<insts, globalenv, caller>>

NextAdjust == StatsmodelsTestSingleContrast \/ EdgeRTestSingleContrast

SpecAdjust == InitAdjust /\ [][NextAdjust]_vars

-----------------------------------------------------------------------------
(* Claims about the constructor and the lifecycle *)

\* the matrix holds a NaN, an Inf or non-numeric values
HasInvalidValue(X) ==
    \/ X.dtype # "float64"
    \/ \E i \in DOMAIN X.cells : X.cells[i] \in {"nan", "inf"}

\* C1: a constructor call on a (masked) count matrix holding a NaN, an Inf or
\* a non-numeric value raises and leaves no instance; hence no instance, and
\* so no call of fit, ever works on such a matrix - for every backend, dense
\* or sparse.
C1_InvalidCountsRaise ==
    /\ (ret.op = "__init__" /\ HasInvalidValue(ret.args.checked.X))
          => (ret.out.kind = "raise" /\ insts[ret.self] = <<>>)
    /\ \A n \in Names : insts[n] # <<>> => ~HasInvalidValue(insts[n][1].adata.X)

\* a constructor call on a dense two-feature matrix with an Inf has raised
C1_Witness ==
    /\ ret.op = "__init__"
    /\ ret.args.checked.X.storage = "ndarray"
    /\ ret.args.checked.X.cells = <<"ok", "inf">>
    /\ ret.out.kind = "raise"

\* C2: test_contrasts on an instance whose fit has not yet been called
\* raises (returns no table), whatever happened to other instances before.
C2_TestBeforeFitRaises ==
    (ret.op = "test_contrasts" /\ ~insts[ret.self][1].fit_called)
        => ret.out.kind = "raise"

\* the attributes fit sets, cleared: the instance as constructed
AsConstructed(inst) ==
    [inst EXCEPT !.models = <<>>, !.dds = <<>>, !.fit = <<>>,
                 !.fit_called = FALSE, !.fit_returned = FALSE]

\* C3: a second fit on an instance succeeds and leaves the instance in the
\* state a single fit leaves it in.
C3_FitIdempotent ==
    (ret.op = "fit" /\ ret.args.refit)
        => /\ ret.out.kind = "return"
           /\ insts[ret.self][1] =
                fit(ret.self, AsConstructed(insts[ret.self][1]), globalenv).inst

\* rows of a table tagged with a contrast name
RowsOf(table, name) == {i \in DOMAIN table : table[i].contrast = name}

\* the names under which the contrasts of an argument are tested
NamesOf(contrasts) ==
    IF contrasts.isdict THEN {contrasts.items[k].name : k \in DOMAIN contrasts.items}
    ELSE {<<>>}

\* C4: test_contrasts after fit returns, per contrast, exactly as many rows
\* as the instance's (masked) matrix has features.
C4_RowsPerContrast ==
    (ret.op = "test_contrasts" /\ insts[ret.self][1].fit_returned /\ ret.out.kind = "return")
        => \A name \in NamesOf(ret.args) :
              Cardinality(RowsOf(ret.out.value, name))
                  = Len(insts[ret.self][1].adata.var_names)

\* the table of the k-th contrast of a mapping, as the backend returns it
ItemTable(k) ==
    test_single_contrast(insts[ret.self][1], globalenv, ret.args.items[k].contrast).value

RECURSIVE Offset(_)
\* number of rows of the tables of the contrasts before the k-th
Offset(k) == IF k = 1 THEN 0 ELSE Offset(k - 1) + Len(ItemTable(k - 1))

\* C5: for a mapping of K named contrasts the result is the row-wise
\* concatenation, in the mapping's order, of the K per-contrast tables, each
\* row carrying the name of its contrast; for a bare contrast it is that
\* contrast's table with the contrast column None on every row.
C5_ConcatTagged ==
    (ret.op = "test_contrasts" /\ ret.out.kind = "return")
        => LET table == ret.out.value
               inst == insts[ret.self][1]
           IN  IF ret.args.isdict
               THEN /\ Len(table) = Offset(Len(ret.args.items) + 1)
                    /\ \A k \in DOMAIN ret.args.items :
                         \A i \in DOMAIN ItemTable(k) :
                           /\ table[Offset(k) + i].contrast = ret.args.items[k].name
                           /\ \A fld \in DOMAIN ItemTable(k)[i] :
                                table[Offset(k) + i][fld] = ItemTable(k)[i][fld]
               ELSE LET single == test_single_contrast(inst, globalenv, ret.args.bare[1]).value
                    IN  /\ Len(table) = Len(single)
                        /\ \A i \in DOMAIN single :
                             /\ table[i].contrast = <<>>
                             /\ \A fld \in DOMAIN single[i] : table[i][fld] = single[i][fld]

\* a mapping of two differently named, different contrasts has returned a
\* table of four rows
C5_Witness ==
    /\ ret.op = "test_contrasts"
    /\ ret.args.isdict
    /\ Len(ret.args.items) = 2
    /\ ret.args.items[1].contrast # ret.args.items[2].contrast
    /\ ret.out.kind = "return"
    /\ Len(ret.out.value) = 4

\* C10: after fit, a raw coefficient vector gives the same result as the
\* symbolic contrast that the backend resolves to that vector.
C10_RoundTrip ==
    (/\ ret.op = "test_contrasts"
     /\ ~ret.args.isdict
     /\ ret.args.bare[1].kind = "triple"
     /\ insts[ret.self][1].fit_returned
     /\ ret.out.kind = "return"
     /\ \A i \in DOMAIN ret.out.value : ret.out.value[i].used.kind = "vector")
        => \A i \in DOMAIN ret.out.value :
              test_contrasts(insts[ret.self][1], globalenv, Bare(ret.out.value[i].used))
                  = ret.out

\* C15: a backend that turns a symbolic pairwise contrast (column, baseline,
\* group_to_compare) into a coefficient vector evaluates the vector of
\* contrast(): cond(column=baseline) - cond(column=group_to_compare).  (The
\* pydeseq2 engine resolves the triple itself; its rows carry the triple.)
C15_UniformSignConvention ==
    (/\ ret.op = "test_contrasts"
     /\ ~ret.args.isdict
     /\ ret.args.bare[1].kind = "triple"
     /\ insts[ret.self][1].design.kind = "ModelMatrix"
     /\ ret.out.kind = "return")
        => LET t == ret.args.bare[1].t
               design == insts[ret.self][1].design
           IN  \A i \in DOMAIN ret.out.value, order \in Orders(variables(design)) :
                  ret.out.value[i].used.kind = "vector"
                     => Return(ret.out.value[i].used.v)
                          = contrast(design, order, t[1], t[2], t[3])

\* C18: test_contrasts on an edgeR instance evaluates the contrast against
\* the model that instance's own fit produced (its matrix, its design),
\* whatever the other instance has fitted in between.
C18_FittedStatePerInstance ==
    (/\ ret.op = "test_contrasts"
     /\ insts[ret.self][1].cls \in {"EdgeRDE", "EdgeR"}
     /\ ret.out.kind = "return")
        => \A i \in DOMAIN ret.out.value :
              /\ ret.out.value[i].model.by = ret.self
              /\ insts[ret.self][1].fit = <<ret.out.value[i].model>>

-----------------------------------------------------------------------------
(* Claims about the contrast builder *)

\* the term of the design's formula that reads obs column var
TermOf(design, var) ==
    LET terms == ParsedFormula[design.formula].terms
    IN  terms[CHOOSE i \in DOMAIN terms : terms[i].var = var]

\* the observation with every variable of the design at its reference level
ReferenceAssignment(design) ==
    [v \in variables(design) |-> RefLevel(TermOf(design, v))]

\* the variable has a reference level in the design: one of its levels has
\* no column
HasReference(design, var) ==
    \E l \in Range(ObsLevels[var]) :
        \A i \in DOMAIN Columns(design) :
            ~(Columns(design)[i].factor = TermOf(design, var).expr
              /\ Columns(design)[i].level = l)

\* the row of the design matrix for an observation: 1 for the intercept, and
\* for a level's column 1 exactly when the observation has that level
DesignRow(design, assignment) ==
    [i \in DOMAIN Columns(design) |->
        IF Columns(design)[i] = InterceptCol THEN 1
        ELSE IF \E v \in DOMAIN assignment :
                  /\ v \in variables(design)
                  /\ TermOf(design, v).expr = Columns(design)[i].factor
                  /\ assignment[v] = Columns(design)[i].level
             THEN 1 ELSE 0]

IsCondCall == ret.op = "cond" /\ insts[ret.self][1].design.kind = "ModelMatrix"

\* C6: for every formula with only categorical variables (with intercept,
\* without as "~ 0 + condition", wrapped as C(...)), cond() with no
\* arguments returns, without raising, the row of the intercept plus the
\* reference level of every variable.
C6_CondNoArgsReferenceRow ==
    (IsCondCall /\ DOMAIN ret.args.kwargs = {})
        => LET design == insts[ret.self][1].design
           IN  /\ ret.out.kind = "return"
               /\ ret.out.value = DesignRow(design, ReferenceAssignment(design))

\* kwargs without the key var
Without(kwargs, var) == [v \in DOMAIN kwargs \ {var} |-> kwargs[v]]

\* every assignment is a level of a variable of the design
ValidKwargs(design, kwargs) ==
    \A v \in DOMAIN kwargs : v \in variables(design) /\ kwargs[v] \in Range(ObsLevels[v])

\* C7: for every categorical variable of a formula design (more than two
\* levels and explicitly chosen reference included), cond(variable=reference
\* level) yields the same vector as the call that omits the variable.
C7_ReferenceEqualsOmitted ==
    IsCondCall
        => LET design == insts[ret.self][1].design
               kwargs == ret.args.kwargs
           IN  \A v \in DOMAIN kwargs :
                  (/\ ValidKwargs(design, kwargs)
                   /\ HasReference(design, v)
                   /\ kwargs[v] = RefLevel(TermOf(design, v)))
                     => /\ ret.out.kind = "return"
                        /\ cond(design, ret.args.order, Without(kwargs, v)) = ret.out

\* C8: for the levels a, b of a two-level categorical variable,
\* contrast(column, a, b) is the element-wise negation of
\* contrast(column, b, a) (and one returns exactly when the other does).
C8_ContrastAntisymmetric ==
    (/\ ret.op = "contrast"
     /\ Len(ObsLevels[ret.args.column]) = 2
     /\ ret.args.baseline \in Range(ObsLevels[ret.args.column])
     /\ ret.args.group_to_compare \in Range(ObsLevels[ret.args.column]))
        => LET swapped == contrast(insts[ret.self][1].design, ret.args.order,
                                   ret.args.column, ret.args.group_to_compare,
                                   ret.args.baseline)
           IN  /\ (ret.out.kind = "return") <=> (swapped.kind = "return")
               /\ ret.out.kind = "return" => ret.out.value = Neg(swapped.value)

\* contrast("condition", "A", "B") on "~ condition" has returned [0, -1]
C8_Witness ==
    /\ ret.op = "contrast"
    /\ insts[ret.self][1].design.formula = "f_condition"
    /\ ret.args.column = "condition"
    /\ ret.args.baseline = "A"
    /\ ret.args.group_to_compare = "B"
    /\ ret.out = Return(<<0, -1>>)

\* C9: for every tested formula and every explicit assignment of levels to
\* the design's variables, cond returns the design-matrix row of an
\* observation with those levels, one entry per design column in column
\* order; "~ condition": A -> [1, 0], B -> [1, 1]; "~ 0 + condition":
\* A -> [1, 0], B -> [0, 1].
C9_CondIsDesignRow ==
    (/\ IsCondCall
     /\ DOMAIN ret.args.kwargs = variables(insts[ret.self][1].design)
     /\ ValidKwargs(insts[ret.self][1].design, ret.args.kwargs))
        => LET design == insts[ret.self][1].design
               kwargs == ret.args.kwargs
           IN  /\ ret.out = Return(DesignRow(design, kwargs))
               /\ Len(ret.out.value) = Len(Columns(design))
               /\ (design.formula = "f_condition" /\ kwargs["condition"] = "A")
                     => ret.out.value = <<1, 0>>
               /\ (design.formula = "f_condition" /\ kwargs["condition"] = "B")
                     => ret.out.value = <<1, 1>>
               /\ (design.formula = "f_0_condition" /\ kwargs["condition"] = "A")
                     => ret.out.value = <<1, 0>>
               /\ (design.formula = "f_0_condition" /\ kwargs["condition"] = "B")
                     => ret.out.value = <<0, 1>>

-----------------------------------------------------------------------------
(* Claims about run_de *)

\* the contrasts argument is one pairwise contrast between the two levels of
\* condition, as a list or as the only entry of a mapping
IsPairwise(contrasts) ==
    LET c == IF contrasts.isdict THEN contrasts.items[1].contrast ELSE contrasts.bare[1]
    IN  /\ contrasts.isdict => Len(contrasts.items) = 1
        /\ c.kind = "triple"
        /\ c.t[2] \in Range(ObsLevels[c.t[1]])
        /\ c.t[3] \in Range(ObsLevels[c.t[1]])
        /\ c.t[2] # c.t[3]

\* C11: for every method name of the registry, run_de with a formula design
\* and one pairwise contrast on valid counts returns a table with exactly
\* n_vars rows, indexed by the var_names, whose columns include pvals,
\* pvals_adj and logfoldchanges.
C11_RunDeSchema ==
    (/\ ret.op = "run_de"
     /\ ret.args.method \in DOMAIN MethodRegistry
     /\ ret.args.design.kind = "str"
     /\ ~HasInvalidValue(ret.args.adata.X)
     /\ IsPairwise(ret.args.contrasts))
        => /\ ret.out.kind = "return"
           /\ Len(ret.out.value.rows) = Len(ret.args.adata.var_names)
           /\ Range(ret.out.value.index) = Range(ret.args.adata.var_names)
           /\ {"pvals", "pvals_adj", "logfoldchanges"} \subseteq ret.out.value.columns

\* C12: run_de with a backend name that is no key of the registry raises
\* before anything else: no constructor (hence no count validation), fit,
\* contrast or test step is executed and the R session is left as it was;
\* the names of the signature's Literal are exactly the registry's keys.
C12_UnknownBackendFailsFirst ==
    /\ MethodLiteral = DOMAIN MethodRegistry
    /\ (ret.op = "run_de" /\ ret.args.method \notin DOMAIN MethodRegistry)
          => /\ ret.out = Raise("KeyError")
             /\ ret.steps = <<>>
             /\ globalenv.fit = <<>>
             /\ \A n \in Names : insts[n] = <<>>

\* run_de with the name "wilcoxon" on a matrix holding a NaN has raised
\* KeyError
C12_Witness ==
    /\ ret.op = "run_de"
    /\ ret.args.method = "wilcoxon"
    /\ HasInvalidValue(ret.args.adata.X)
    /\ ret.out = Raise("KeyError")

-----------------------------------------------------------------------------
(* Claims about the errors of the contrast builder *)

\* C13: when the design was given as a raw matrix, every call of cond and of
\* contrast raises the RuntimeError that asks for a manually provided
\* contrast vector, whatever the arguments; no vector is returned.
C13_RawMatrixDesignRaises ==
    (ret.op \in {"cond", "contrast"} /\ insts[ret.self][1].design.kind = "ndarray")
        => ret.out = Raise("RuntimeError")

\* contrast("condition", "A", "B") on a raw-matrix design has raised
\* RuntimeError
C13_Witness ==
    /\ ret.op = "contrast"
    /\ insts[ret.self][1].design.kind = "ndarray"
    /\ ret.args.column = "condition"
    /\ ret.args.baseline = "A"
    /\ ret.args.group_to_compare = "B"
    /\ ret.out = Raise("RuntimeError")

\* C14: cond called with a level that is not an observed level of a
\* categorical variable of the design raises the ValueError naming the
\* possible categories, wherever that variable comes among the design's
\* variables and whatever the other assignments are.
C14_InvalidLevelRaises ==
    (/\ IsCondCall
     /\ \E v \in DOMAIN ret.args.kwargs \cap variables(insts[ret.self][1].design) :
           ret.args.kwargs[v] \notin Range(ObsLevels[v]))
        => ret.out = Raise("ValueError")

-----------------------------------------------------------------------------
(* Claims about the adjusted p-values *)

\* C16: in the table of one contrast, the adjusted p-value of every feature
\* is the Benjamini-Hochberg correction over the p-values of all the
\* features of that contrast, not the correction of the feature's p-value
\* taken alone.
C16_AdjustedAcrossFeatures ==
    ret.op = "_test_single_contrast"
        => \A i \in DOMAIN ret.out.value :
              ret.out.value[i].adjusted
                  = fdrcorrection(ret.args.pvalues)[ret.out.value[i].variable]

-----------------------------------------------------------------------------
(* Claims about the mask and the layers *)

\* C17: a constructor call with a feature mask leaves the object the caller
\* holds as it was (features, values, layers); the new instance works on the
\* subset of exactly the features the mask selects, and the call raises
\* exactly when that subset fails the count validation.
C17_MaskLeavesCallerUnchanged ==
    (ret.op = "__init__" /\ caller # <<>> /\ ret.args.mask # <<>>)
        => LET selected == Subset(ret.args.adata, ret.args.mask[1]) IN
           /\ caller = <<ret.args.adata>>
           /\ ret.out.kind = "return"
                 => /\ insts[ret.self][1].adata = selected
                    /\ insts[ret.self][1].adata.var_names
                          = SelectIdx(ret.args.adata.var_names, ret.args.mask[1], 1)
           /\ ret.out.kind = "raise"
                 <=> (HasInvalidValue(selected.X) \/ ~check_counts(ret.args.cls, selected))

\* an instance was constructed on the first of two features, the second
\* holding a NaN, and the caller still has both
C17_Witness ==
    /\ ret.op = "__init__"
    /\ caller # <<>>
    /\ ret.args.mask = <<<<TRUE, FALSE>>>>
    /\ ret.args.adata.X.cells = <<"ok", "nan">>
    /\ ret.out.kind = "return"
    /\ Len(insts[ret.self][1].adata.var_names) = 1
    /\ Len(caller[1].var_names) = 2

\* the matrix the fitted state of an instance was computed from
Consumed(inst) ==
    CASE inst.cls = "StatsmodelsDE" ->
           [inst.adata.X EXCEPT !.cells = [i \in DOMAIN inst.models[1] |-> inst.models[1][i].data]]
      [] inst.cls = "PyDESeq2DE" -> inst.dds[1].counts
      [] inst.cls \in {"EdgeRDE", "EdgeR"} -> inst.fit[1].counts

\* C19: the matrix a returning fit has read passed the constructor's count
\* validation (no NaN, no Inf, numeric, the backend's _check_counts),
\* whether layer is None or names a layer.
C19_FitReadsValidatedMatrix ==
    (/\ ret.op = "fit"
     /\ ret.out.kind = "return"
     /\ insts[ret.self][1].cls # "WilcoxonTest")
        => LET inst == insts[ret.self][1] IN
           /\ ~HasInvalidValue(Consumed(inst))
           /\ check_counts(inst.cls, [inst.adata EXCEPT !.X = Consumed(inst)])

-----------------------------------------------------------------------------
(* Claims about the statsmodels backend's rows *)

\* C20: a table the statsmodels backend returns has, per contrast, exactly
\* one row per current feature of the instance, and the row labelled with
\* feature g was computed from the model fitted on feature g; so when the
\* feature set has changed since fit, no truncated or mispaired table is
\* returned.
C20_RowsPairedWithOwnModel ==
    (/\ ret.op = "test_contrasts"
     /\ insts[ret.self][1].cls = "StatsmodelsDE"
     /\ ret.out.kind = "return")
        => LET table == ret.out.value
               var_names == insts[ret.self][1].adata.var_names
           IN  /\ \A name \in NamesOf(ret.args) :
                     /\ Cardinality(RowsOf(table, name)) = Len(var_names)
                     /\ {table[i].variable : i \in RowsOf(table, name)} = Range(var_names)
               /\ \A i \in DOMAIN table : table[i].model.endog = table[i].variable

====
